---------------------------- MODULE Spec2Model ----------------------------
(***************************************************************************)
(* Recognizable series (sage.combinat.recognizable_series): the prefix-    *)
(* closed set, the linear representation (mu, left, right) of a series,    *)
(* its coefficients, its algebra and the minimization of Berstel and       *)
(* Reutenauer, modelled over the prime field with three elements and the   *)
(* alphabet {0, 1}.                                                         *)
(*                                                                         *)
(* A vector is a sequence of coefficients, a matrix the sequence of its    *)
(* rows, a word the sequence of its letters.  A series is a record         *)
(*   [mu |-> the matrices of the letters in the order of the alphabet,     *)
(*    eps |-> <<>> or <<E>>, left |-> vector, right |-> vector]            *)
(* where eps holds the image of the empty word when the family mu has the  *)
(* empty word among its keys.                                              *)
(***************************************************************************)
EXTENDS Integers, Sequences, FiniteSets

VARIABLES
    S,          \* the series the operations are called on (self)
    T,          \* the other operand of the last binary operation, or the
                \* series a chain of two calls started from
    op,         \* the last operation called: its name and its arguments
    R,          \* what the last operation returned
    elements,   \* PrefixClosedSet.elements
    lastAdd,    \* the last call of PrefixClosedSet.add and how it ended
    allChecked, \* whether every add so far was called with check=True
    gen,        \* the generator populate_interactive returned: its cursor n,
                \* the place i of its letter iterator, and whether it runs
    yielded,    \* the candidates the generator yielded, in order
    LeftRows,   \* the rows Left of a running _minimized_left_
    it,         \* the iterator iter(S) returned: its place in the word
                \* domain and what the last next() on it found
    spaces,     \* the spaces that exist, in the order of their creation
    instances,  \* the series instances that exist, in the order of their
                \* creation
    calls       \* the constructions of a space so far: arguments and outcome

vars == <<S, T, op, R, elements, lastAdd, allChecked, gen, yielded,
          LeftRows, it, spaces, instances, calls>>

-----------------------------------------------------------------------------
(* Bounds of the model. *)

\* Coefficients are checked on all words of at most this length.
MaxWordLen == 3

\* PrefixClosedSet.elements grows to at most this many words.
MaxElements == 3

\* Words handed to PrefixClosedSet.add have at most this length.
MaxAddLen == 2

\* The caller of populate_interactive adds at most this many candidates.
MaxAccepted == 4

\* iter(S) is called at most this many times on one series.
MaxIterators == 2

\* The element constructor makes at most this many series instances.
MaxInstances == 2

\* RecognizableSeriesSpace is constructed at most this many times.
MaxCalls == 2

-----------------------------------------------------------------------------
(* The coefficient field and the alphabet of the space. *)

\* RecognizableSeriesSpace(coefficients, alphabet): the field GF(3).
Coefficients == {0, 1, 2}

Char == Cardinality(Coefficients)

\* The alphabet in its order; words.iterate_by_length(1) runs through it.
Alphabet == <<0, 1>>

Letters == {Alphabet[i] : i \in 1..Len(Alphabet)}

RECURSIVE WordsOfLength(_)
WordsOfLength(n) ==
    IF n = 0 THEN {<<>>}
    ELSE {Append(w, a) : w \in WordsOfLength(n - 1), a \in Letters}

WordsUpTo(n) == UNION {WordsOfLength(k) : k \in 0..n}

RECURSIVE Reverse(_)
Reverse(w) == IF w = <<>> THEN <<>> ELSE Append(Reverse(Tail(w)), Head(w))

-----------------------------------------------------------------------------
(* Arithmetic of the coefficient field, vectors and matrices. *)

\* The sequence f as a tuple of its values
Tup(f) == f \o <<>>

KAdd(a, b) == (a + b) % Char
KMul(a, b) == (a * b) % Char
KNeg(a) == (Char - a) % Char

NRows(M) == Len(M)
NCols(M) == IF M = <<>> THEN 0 ELSE Len(M[1])

\* u[1]*v[1] + ... + u[n]*v[n]
RECURSIVE DotUpTo(_, _, _)
DotUpTo(u, v, n) ==
    IF n = 0 THEN 0 ELSE KAdd(DotUpTo(u, v, n - 1), KMul(u[n], v[n]))

Dot(u, v) == DotUpTo(u, v, Len(u))

\* v[1]*M[1][j] + ... + v[n]*M[n][j]
RECURSIVE DotColumn(_, _, _, _)
DotColumn(v, M, j, n) ==
    IF n = 0 THEN 0 ELSE KAdd(DotColumn(v, M, j, n - 1), KMul(v[n], M[n][j]))

\* v * M for a row vector v
VecMat(v, M) == Tup([j \in 1..NCols(M) |-> DotColumn(v, M, j, NRows(M))])

\* M * v for a column vector v
MatVec(M, v) == Tup([i \in 1..NRows(M) |-> Dot(M[i], v)])

MatMul(A, B) == Tup([i \in 1..NRows(A) |-> VecMat(A[i], B)])

Transpose(M) ==
    Tup([j \in 1..NCols(M) |-> Tup([i \in 1..NRows(M) |-> M[i][j]])])

IdentityMatrix(n) ==
    Tup([i \in 1..n |-> Tup([j \in 1..n |-> IF i = j THEN 1 ELSE 0])])

ZeroVector(n) == Tup([i \in 1..n |-> 0])

\* c * v and v * c
VecScale(c, v) == Tup([i \in 1..Len(v) |-> KMul(c, v[i])])

VecScaleRight(v, c) == Tup([i \in 1..Len(v) |-> KMul(v[i], c)])

VecNeg(v) == Tup([i \in 1..Len(v) |-> KNeg(v[i])])

\* "not v" for a vector and "not M" for a matrix: every entry is zero
IsZeroVector(v) == \A i \in 1..Len(v) : v[i] = 0

IsZeroMatrix(M) == \A i \in 1..Len(M) : IsZeroVector(M[i])

\* A.block_sum(B)
BlockSum(A, B) ==
    Tup([i \in 1..(NRows(A) + NRows(B)) |->
        IF i <= NRows(A)
        THEN A[i] \o ZeroVector(NCols(B))
        ELSE ZeroVector(NCols(A)) \o B[i - NRows(A)]])

\* u.outer_product(v).list(): the entries u[i]*v[j], row by row
OuterList(u, v) ==
    Tup([k \in 1..(Len(u) * Len(v)) |->
        KMul(u[((k - 1) \div Len(v)) + 1], v[((k - 1) % Len(v)) + 1])])

\* A faulty variant of NoSolution: the solve fails for every vector.
NoSolutionAlways(M, v) == TRUE

\* M.solve_left(v) looks for a vector x with x * M = v: Sage raises
\* ValueError when there is none,
NoSolution(M, v) ==
    ~ \E x \in [1..NRows(M) -> Coefficients] : VecMat(x, M) = v

\* and returns one when there is.
Solution(M, v) ==
    CHOOSE x \in [1..NRows(M) -> Coefficients] : VecMat(x, M) = v

-----------------------------------------------------------------------------
(* PrefixClosedSet *)

\* PrefixClosedSet.__init__: elements = [the empty word]
PrefixClosedSetInit == << <<>> >>

InList(x, l) == \E k \in 1..Len(l) : l[k] = x

\* w.prefixes_iterator() without w itself
ProperPrefixes(w) == {SubSeq(w, 1, k) : k \in 0..(Len(w) - 1)}

\* A faulty variant of AddRaises: the prefixes are never looked at.
AddNeverRaises(els, w, check) == FALSE

\* A faulty variant of AddRaises: w itself is taken for one of its prefixes.
AddRaisesOnAnyPrefix(els, w, check) ==
    check /\ \E k \in 0..Len(w) : ~InList(SubSeq(w, 1, k), els)

\* PrefixClosedSet.add raises ValueError: check is set and a proper prefix
\* of w is not in elements
AddRaises(els, w, check) ==
    check /\ \E p \in ProperPrefixes(w) : ~InList(p, els)

\* The ValueError PrefixClosedSet.add raises: its message holds the word
AddError(w) == [raised |-> "ValueError", w |-> w]

\* PrefixClosedSet.add when it does not raise: w is appended
AddResult(els, w) == Append(els, w)

\* What a method without a return statement returns
None == [value |-> "None"]

\* What next() finds when the generator has ended
StopIteration == [raised |-> "StopIteration"]

\* What next() returns when the generator yields the word w
Yielded(w) == [word |-> w]

\* A faulty variant of Candidate: the letter is put in front of the element.
CandidatePrepended(els, n, i) == <<Alphabet[i]>> \o els[n]

\* The candidate populate_interactive yields with its cursor at element n
\* (from 1) and its letter iterator about to produce letter number i
Candidate(els, n, i) == Append(els[n], Alphabet[i])

\* A faulty variant of GeneratorStep: the loop ends one element early.
RECURSIVE GeneratorStepOneShort(_, _, _)
GeneratorStepOneShort(els, n, i) ==
    IF n > Len(els) - 1 THEN [status |-> "done", n |-> n, i |-> i]
    ELSE IF i > Len(Alphabet) THEN GeneratorStepOneShort(els, n + 1, 1)
    ELSE [status |-> "running", n |-> n, i |-> i + 1,
          word |-> Candidate(els, n, i)]

\* A faulty variant of GeneratorStep: the cursor is not moved when the
\* letters run out.
RECURSIVE GeneratorStepWithoutAdvance(_, _, _)
GeneratorStepWithoutAdvance(els, n, i) ==
    IF n > Len(els) THEN [status |-> "done", n |-> n, i |-> i]
    ELSE IF i > Len(Alphabet) THEN GeneratorStepWithoutAdvance(els, n, 1)
    ELSE [status |-> "running", n |-> n, i |-> i + 1,
          word |-> Candidate(els, n, i)]

\* One next() on the generator of populate_interactive, from the cursor n
\* (from 1) and the letter iterator about to produce letter number i: the
\* loop runs to its next yield, or ends when n has passed the last element
RECURSIVE GeneratorStep(_, _, _)
GeneratorStep(els, n, i) ==
    IF n > Len(els) THEN [status |-> "done", n |-> n, i |-> i]
    ELSE IF i > Len(Alphabet) THEN GeneratorStep(els, n + 1, 1)
    ELSE [status |-> "running", n |-> n, i |-> i + 1,
          word |-> Candidate(els, n, i)]

\* A faulty variant of prefix_set: the words that are elements are kept.
prefix_set_unfiltered(els) ==
    Tup([k \in 1..(Len(els) * Len(Alphabet)) |->
            Append(els[((k - 1) \div Len(Alphabet)) + 1],
                   Alphabet[((k - 1) % Len(Alphabet)) + 1])])

\* PrefixClosedSet.prefix_set
prefix_set(els) ==
    LET pairs == Tup([k \in 1..(Len(els) * Len(Alphabet)) |->
                    Append(els[((k - 1) \div Len(Alphabet)) + 1],
                           Alphabet[((k - 1) % Len(Alphabet)) + 1])])
    IN SelectSeq(pairs, LAMBDA c : ~InList(c, els))

-----------------------------------------------------------------------------
(* RecognizableSeries *)

\* What a method that raised ValueError leaves in place of a series
ValueError == [raised |-> "ValueError"]

Raised(x) == x = ValueError

\* RecognizableSeries.__init__ with mu a list or tuple: dict(zip(A, mu)),
\* and every matrix of the dict is made immutable (copied when it is not)
SeriesFromList(mus, left, right) ==
    [mu |-> mus, eps |-> <<>>, left |-> left, right |-> right,
     frozen |-> TRUE]

\* RecognizableSeries.__init__ with mu a dict, given here as the matrices of
\* the letters in the order of the alphabet; eps is <<E>> when the empty
\* word is a key of mu and <<>> when it is not.  Every matrix of the dict is
\* made immutable.
SeriesFromDict(mu, eps, left, right) ==
    [mu |-> mu, eps |-> eps, left |-> left, right |-> right,
     frozen |-> TRUE]

\* RecognizableSeries.__init__ with mu a family that is no dict, list or
\* tuple: the family is kept as it is, and frozen tells whether its matrices
\* are immutable.  left and right are made immutable in every case.
SeriesFromFamily(mu, eps, left, right, frozen) ==
    [mu |-> mu, eps |-> eps, left |-> left, right |-> right,
     frozen |-> frozen]

\* A faulty variant of zero: the matrices and vectors have one zero entry.
zero_of_dimension_one ==
    [mu |-> Tup([i \in 1..Len(Alphabet) |-> <<<<0>>>>]), eps |-> <<>>,
     left |-> <<0>>, right |-> <<0>>, frozen |-> FALSE]

\* RecognizableSeriesSpace._element_constructor_(0) and zero()
zero == [mu |-> Tup([i \in 1..Len(Alphabet) |-> <<>>]), eps |-> <<>>,
         left |-> <<>>, right |-> <<>>, frozen |-> FALSE]

\* The place of the letter a in the alphabet: mu[a] is Sr.mu[LetterIndex(a)]
LetterIndex(a) == CHOOSE i \in 1..Len(Alphabet) : Alphabet[i] = a

\* RecognizableSeries.dimension
dimension(Sr) == NRows(Sr.mu[1])

\* RecognizableSeries._mu_of_empty_word_
mu_of_empty_word(Sr) ==
    IF Sr.eps # <<>> THEN Sr.eps[1] ELSE IdentityMatrix(dimension(Sr))

\* prod(tuple(mu[a] for a in w), z): z * mu[w1] * ... * mu[wn]
RECURSIVE Prod(_, _, _)
Prod(mu, w, z) ==
    IF w = <<>> THEN z
    ELSE Prod(mu, Tail(w), MatMul(z, mu[LetterIndex(Head(w))]))

\* RecognizableSeries._mu_of_word_
mu_of_word(Sr, w) == Prod(Sr.mu, w, mu_of_empty_word(Sr))

\* RecognizableSeries.coefficient_of_word (and __getitem__)
coefficient_of_word(Sr, w, multiply_left, multiply_right) ==
    LET m == mu_of_word(Sr, w)
    IN IF multiply_left
       THEN IF multiply_right
            THEN Dot(VecMat(Sr.left, m), Sr.right)
            ELSE VecMat(Sr.left, m)
       ELSE IF multiply_right THEN MatVec(m, Sr.right) ELSE m

Coeff(Sr, w) == coefficient_of_word(Sr, w, TRUE, TRUE)

\* A faulty variant of transposed: left and right are not swapped.
transposed_without_swap(Sr) ==
    IF Raised(Sr) THEN ValueError
    ELSE SeriesFromFamily(
            Tup([i \in 1..Len(Sr.mu) |-> Transpose(Sr.mu[i])]),
            IF Sr.eps # <<>> THEN <<Transpose(Sr.eps[1])>> ELSE <<>>,
            Sr.left, Sr.right, FALSE)

\* RecognizableSeries.transposed: the family self.mu.map(...) of the
\* transposes, which are new matrices and not immutable
transposed(Sr) ==
    IF Raised(Sr) THEN ValueError
    ELSE SeriesFromFamily(
            Tup([i \in 1..Len(Sr.mu) |-> Transpose(Sr.mu[i])]),
            IF Sr.eps # <<>> THEN <<Transpose(Sr.eps[1])>> ELSE <<>>,
            Sr.right, Sr.left, FALSE)

\* The candidate loop of _minimized_left_: populate_interactive with its
\* cursor at element n and letter i, the solve, and pcs.add on "no solution".
RECURSIVE MinLoop(_, _, _, _, _)
MinLoop(Sr, els, Left, n, i) ==
    IF n > Len(els) THEN [P |-> els, Left |-> Left]
    ELSE IF i > Len(Alphabet) THEN MinLoop(Sr, els, Left, n + 1, 1)
    ELSE LET p == Candidate(els, n, i)
             left == coefficient_of_word(Sr, p, TRUE, FALSE)
         IN IF NoSolution(Left, left)
            THEN IF AddRaises(els, p, TRUE) THEN ValueError
                 ELSE MinLoop(Sr, AddResult(els, p), Append(Left, left), n, i + 1)
            ELSE MinLoop(Sr, els, Left, n, i + 1)

\* alpha(c) of _minimized_left_: ML.solve_left(row of c)
alpha(Sr, ML, c) == Solution(ML, coefficient_of_word(Sr, c, TRUE, FALSE))

\* A faulty variant of mu_prime_entry: the words of C get no row.
mu_prime_entry_without_alpha(alpha_c, C, c, q, iq) ==
    IF c = q THEN 1 ELSE 0

\* mu_prime_entry of _minimized_left_ for c = p + a, with alpha_c = alpha(c)
\* where c is in C
mu_prime_entry(alpha_c, C, c, q, iq) ==
    IF c = q THEN 1
    ELSE IF InList(c, C) THEN alpha_c[iq]
    ELSE 0

\* The row of p in mu_prime[a]
mu_prime_row(Sr, ML, P, C, a, p) ==
    LET c == Append(p, a)
        alpha_c == IF InList(c, C) THEN alpha(Sr, ML, c) ELSE <<>>
    IN Tup([iq \in 1..Len(P) |-> mu_prime_entry(alpha_c, C, c, P[iq], iq)])

\* The construction that ends _minimized_left_, from the word list P and the
\* rows Left the loop ended with; alpha raises ValueError when the solve has
\* no solution
MinBuild(Sr, P, Left) ==
    LET C == prefix_set(P)
        alphaRaises == \E k \in 1..Len(C) :
            NoSolution(Left, coefficient_of_word(Sr, C[k], TRUE, FALSE))
        mu_prime == Tup([ia \in 1..Len(Alphabet) |->
                       Tup([ip \in 1..Len(P) |->
                          mu_prime_row(Sr, Left, P, C, Alphabet[ia], P[ip])])])
        left_prime == Tup([k \in 1..Len(P) |-> IF k = 1 THEN 1 ELSE 0])
        right_prime == Tup([k \in 1..Len(P) |-> Coeff(Sr, P[k])])
    IN IF alphaRaises THEN ValueError
       ELSE SeriesFromList(mu_prime, left_prime, right_prime)

\* A faulty variant of _minimized_left_: a zero row of the empty word does
\* not end the method.
minimized_left_without_zero_check(Sr) ==
    IF Raised(Sr) THEN ValueError
    ELSE LET left == coefficient_of_word(Sr, PrefixClosedSetInit[1], TRUE, FALSE)
             loop == MinLoop(Sr, PrefixClosedSetInit, <<left>>, 1, 1)
         IN IF Raised(loop) THEN ValueError
            ELSE MinBuild(Sr, loop.P, loop.Left)

\* RecognizableSeries._minimized_left_
minimized_left(Sr) ==
    IF Raised(Sr) THEN ValueError
    ELSE LET left == coefficient_of_word(Sr, PrefixClosedSetInit[1], TRUE, FALSE)
         IN IF IsZeroVector(left) THEN zero
            ELSE LET loop == MinLoop(Sr, PrefixClosedSetInit, <<left>>, 1, 1)
                 IN IF Raised(loop) THEN ValueError
                    ELSE MinBuild(Sr, loop.P, loop.Left)

\* RecognizableSeries._minimized_right_
minimized_right(Sr) == transposed(minimized_left(transposed(Sr)))

\* RecognizableSeries.minimized
minimized(Sr) == minimized_left(minimized_right(Sr))

\* RecognizableSeries._add_
add(Sr, other, minimize) ==
    LET result == SeriesFromDict(
            Tup([i \in 1..Len(Alphabet) |-> BlockSum(Sr.mu[i], other.mu[i])]),
            <<>>,
            Sr.left \o other.left, Sr.right \o other.right)
    IN IF minimize THEN minimized(result) ELSE result

\* A faulty variant of _neg_: right is negated and left is kept.
neg_right(Sr) ==
    SeriesFromFamily(Sr.mu, Sr.eps, Sr.left, VecNeg(Sr.right), Sr.frozen)

\* RecognizableSeries._neg_
neg(Sr) ==
    SeriesFromFamily(Sr.mu, Sr.eps, VecNeg(Sr.left), Sr.right, Sr.frozen)

\* RecognizableSeries._rmul_
rmul(Sr, other) ==
    SeriesFromFamily(Sr.mu, Sr.eps, Sr.left, VecScaleRight(Sr.right, other),
                     Sr.frozen)

\* RecognizableSeries._lmul_
lmul(Sr, other) ==
    SeriesFromFamily(Sr.mu, Sr.eps, VecScale(other, Sr.left), Sr.right,
                     Sr.frozen)

\* The matrix hadamard_product builds for one letter: the rows
\* srow.outer_product(orow).list() for srow in A.rows() for orow in B.rows()
HadamardMatrix(A, B) ==
    Tup([k \in 1..(NRows(A) * NRows(B)) |->
        OuterList(A[((k - 1) \div NRows(B)) + 1], B[((k - 1) % NRows(B)) + 1])])

\* RecognizableSeries.hadamard_product
hadamard_product(Sr, other, minimize) ==
    LET result == SeriesFromDict(
            Tup([i \in 1..Len(Alphabet) |->
                    HadamardMatrix(Sr.mu[i], other.mu[i])]),
            <<>>,
            OuterList(Sr.left, other.left), OuterList(Sr.right, other.right))
    IN IF minimize THEN minimized(result) ELSE result

\* A faulty variant of is_trivial_zero: the coefficient of the empty word is
\* not looked at.
is_trivial_zero_without_empty_word(Sr) ==
    \/ IsZeroVector(Sr.left)
    \/ IsZeroVector(Sr.right)
    \/ \A a \in Letters : IsZeroMatrix(Sr.mu[LetterIndex(a)])

\* RecognizableSeries.is_trivial_zero
is_trivial_zero(Sr) ==
    \/ IsZeroVector(Sr.left)
    \/ IsZeroVector(Sr.right)
    \/ /\ \A a \in Letters : IsZeroMatrix(Sr.mu[LetterIndex(a)])
       /\ Coeff(Sr, <<>>) = 0

\* RecognizableSeries.__nonzero__: bool(S)
nonzero(Sr) ==
    IF is_trivial_zero(Sr) THEN FALSE
    ELSE LET M == minimized(Sr)
         IN IF Raised(M) THEN TRUE
            ELSE IF is_trivial_zero(M) THEN FALSE
            ELSE TRUE

\* The words of length n in the order iterate_by_length(n) gives them: the
\* order of the alphabet, the first letter first
RECURSIVE WordsInOrder(_)
WordsInOrder(n) ==
    IF n = 0 THEN << <<>> >>
    ELSE LET shorter == WordsInOrder(n - 1)
         IN Tup([k \in 1..(Len(Alphabet) * Len(shorter)) |->
                    <<Alphabet[((k - 1) \div Len(shorter)) + 1]>>
                        \o shorter[((k - 1) % Len(shorter)) + 1]])

\* The words of self.parent().indices() in the order its iteration gives
\* them, up to the length n
RECURSIVE IndicesUpTo(_)
IndicesUpTo(n) ==
    IF n = 0 THEN WordsInOrder(0)
    ELSE IndicesUpTo(n - 1) \o WordsInOrder(n)

\* The part of the word domain on which the generator of __iter__ is
\* followed word by word
IterWords == IndicesUpTo(MaxWordLen)

\* The series with the coefficients of Sr whose family has no image of the
\* empty word: self[w] is left * E * mu[w1] * ... * mu[wn] * right, so left
\* * E is its left
WithoutEmptyWord(Sr) ==
    SeriesFromDict(Sr.mu, <<>>,
                   VecMat(Sr.left, mu_of_empty_word(Sr)), Sr.right)

\* The generator of __iter__ finds no word after IterWords: the minimized
\* series has a zero row left * mu(w) at every word w one letter longer than
\* the words of IterWords, so self[w] is 0 at every word the generator has
\* still to try.  The series that is minimized here has no image of the
\* empty word, and minimized() keeps the coefficients of such a series.
NothingAfterIterWords(Sr) ==
    LET M == minimized(WithoutEmptyWord(Sr))
    IN \A w \in WordsOfLength(MaxWordLen + 1) :
            IsZeroVector(coefficient_of_word(M, w, TRUE, FALSE))

\* What next() returns when the iterator gives the pair (w, c)
Pair(w, c) == [word |-> w, coefficient |-> c]

\* RecognizableSeries.__iter__: iter([]) when bool(self) is False, and else
\* a new generator that has not started.  given keeps the pairs the
\* iterator has given to its caller.
NewIterator(Sr, id) ==
    [status |-> "idle", id |-> id, pos |-> 1, empty |-> ~nonzero(Sr),
     given |-> <<>>]

\* A faulty variant of IteratorStep: the pair is given whatever the
\* coefficient is.
IteratorStepUnfiltered(Sr, i) ==
    IF i.empty THEN [i EXCEPT !.status = "exhausted"]
    ELSE IF i.pos > Len(IterWords)
         THEN IF NothingAfterIterWords(Sr) THEN i
              ELSE [i EXCEPT !.status = "beyond"]
    ELSE [i EXCEPT !.status = "answered", !.pos = @ + 1,
                   !.given = Append(@, Pair(IterWords[i.pos],
                                            Coeff(Sr, IterWords[i.pos])))]

\* The generator of __iter__ tries the word at its place, number pos of the
\* word domain: it gives the pair when self[w] != 0 and goes on to the next
\* word when self[w] is 0; having given a pair it is suspended until the
\* next next().  iter([]) ends at once.  After the last word of
\* IterWords the generator goes on through words that all have the
\* coefficient 0, or it leaves the part of the domain that is followed.
IteratorStep(Sr, i) ==
    IF i.empty THEN [i EXCEPT !.status = "exhausted"]
    ELSE IF i.pos > Len(IterWords)
         THEN IF NothingAfterIterWords(Sr) THEN i
              ELSE [i EXCEPT !.status = "beyond"]
    ELSE IF Coeff(Sr, IterWords[i.pos]) # 0
         THEN [i EXCEPT !.status = "answered", !.pos = @ + 1,
                        !.given = Append(@, Pair(IterWords[i.pos],
                                                 Coeff(Sr, IterWords[i.pos])))]
         ELSE [i EXCEPT !.pos = @ + 1]

-----------------------------------------------------------------------------
(* RecognizableSeriesSpace: the arguments of its construction, their        *)
(* normalization and the unique instance of each normalized key.            *)

\* An argument that is not given (None)
NoArg == [kind |-> "None"]

\* Coefficients that are a semiring, and coefficients that are none (the
\* list [0, 1] of the doctest)
SemiringArg == [kind |-> "semiring", name |-> "GF(3)"]

NotASemiring == [kind |-> "list", name |-> "[0, 1]"]

\* The alphabet [0, 1], and an alphabet that is not finite (ZZ)
AlphabetArg == [kind |-> "alphabet", letters |-> Alphabet, finite |-> TRUE]

InfiniteAlphabet == [kind |-> "alphabet", letters |-> <<>>, finite |-> FALSE]

\* Words(alphabet, infinite=False): the finite words over the alphabet
Words(alphabet) ==
    [kind |-> "words", letters |-> alphabet.letters, finite |-> alphabet.finite]

\* Modules(coefficients), the category a space gets when none is given, and
\* another category
Modules(coefficients) ==
    [kind |-> "category", name |-> "Modules", base |-> coefficients.name]

OtherCategory ==
    [kind |-> "category", name |-> "Modules.WithBasis", base |-> "GF(3)"]

\* How a call ended: with the error raised, or with the space returned (its
\* place in spaces)
Raise(error, message) == [raised |-> error, message |-> message, space |-> 0]

Return(space) == [raised |-> "", message |-> "", space |-> space]

\* A faulty variant of normalize: the alphabet is not turned into its words.
normalize_keeping_alphabet(coefficients, alphabet, indices, category) ==
    IF (alphabet = NoArg) = (indices = NoArg)
    THEN Raise("ValueError", "Specify either 'alphabet' or 'indices'.")
    ELSE LET ind == IF indices = NoArg THEN alphabet ELSE indices
         IN IF ~ind.finite
            THEN Raise("NotImplementedError", "Alphabet is not finite.")
            ELSE IF coefficients = NoArg
            THEN Raise("ValueError", "No coefficients speficied.")
            ELSE IF coefficients.kind # "semiring"
            THEN Raise("ValueError", "Coefficients [0, 1] are not a semiring.")
            ELSE [coefficients |-> coefficients, indices |-> ind,
                  category |-> IF category = NoArg THEN Modules(coefficients)
                               ELSE category]

\* A faulty variant of normalize: the alphabet is not asked whether it is
\* finite.
normalize_without_finiteness(coefficients, alphabet, indices, category) ==
    IF (alphabet = NoArg) = (indices = NoArg)
    THEN Raise("ValueError", "Specify either 'alphabet' or 'indices'.")
    ELSE LET ind == IF indices = NoArg THEN Words(alphabet) ELSE indices
         IN IF coefficients = NoArg
            THEN Raise("ValueError", "No coefficients speficied.")
            ELSE IF coefficients.kind # "semiring"
            THEN Raise("ValueError", "Coefficients [0, 1] are not a semiring.")
            ELSE [coefficients |-> coefficients, indices |-> ind,
                  category |-> IF category = NoArg THEN Modules(coefficients)
                               ELSE category]

\* RecognizableSeriesSpace.__normalize__: the error it raises, or the key
\* (coefficients, indices, category)
normalize(coefficients, alphabet, indices, category) ==
    IF (alphabet = NoArg) = (indices = NoArg)
    THEN Raise("ValueError", "Specify either 'alphabet' or 'indices'.")
    ELSE LET ind == IF indices = NoArg THEN Words(alphabet) ELSE indices
         IN IF ~ind.finite
            THEN Raise("NotImplementedError", "Alphabet is not finite.")
            ELSE IF coefficients = NoArg
            THEN Raise("ValueError", "No coefficients speficied.")
            ELSE IF coefficients.kind # "semiring"
            THEN Raise("ValueError", "Coefficients [0, 1] are not a semiring.")
            ELSE [coefficients |-> coefficients, indices |-> ind,
                  category |-> IF category = NoArg THEN Modules(coefficients)
                               ELSE category]

\* The unique instance of a key: the space that exists for the key, or a
\* new space, made by __init__(coefficients, indices, category) and kept
CachedInstance(cache, key) ==
    IF \E k \in 1..Len(cache) : cache[k] = key
    THEN [spaces |-> cache,
          outcome |-> Return(CHOOSE k \in 1..Len(cache) : cache[k] = key)]
    ELSE [spaces |-> Append(cache, key), outcome |-> Return(Len(cache) + 1)]

\* RecognizableSeriesSpace.__classcall__: the arguments are normalized, and
\* the normalized arguments go to the __classcall__ of UniqueRepresentation
classcall(cache, coefficients, alphabet, indices, category) ==
    LET key == normalize(coefficients, alphabet, indices, category)
    IN IF "raised" \in DOMAIN key THEN [spaces |-> cache, outcome |-> key]
       ELSE CachedInstance(cache, key)

-----------------------------------------------------------------------------
(* RecognizableSeriesSpace._element_constructor_: the series instances are  *)
(* kept in a list, and an instance is known by its place in the list.       *)

\* The data the element constructor is called with: the int 0, an instance,
\* or the matrices of the letters
IntData(n) == [kind |-> "int", value |-> n]

ElementData(ref) == [kind |-> "element", ref |-> ref]

MatricesData(mus) == [kind |-> "matrices", mu |-> mus]

\* A vector given as left or right
VectorArg(v) == [kind |-> "vector", value |-> v]

\* How a call of the element constructor ended: with the error raised, or
\* with the instance returned
RaiseInElement(error, message) ==
    [raised |-> error, message |-> message, ref |-> 0]

ReturnElement(ref) == [raised |-> "", message |-> "", ref |-> ref]

\* self.element_class(self, mu, left, right): one more instance, whose
\* parent is the space
NewInstance(insts, space, Sr) ==
    [instances |-> Append(insts, [parent |-> space, series |-> Sr]),
     outcome |-> ReturnElement(Len(insts) + 1)]

\* A faulty variant of element: an instance of the space is built again
\* from its mu, left and right.
element_rebuilt(insts, space, data, left, right) ==
    IF data.kind = "element"
    THEN LET d == insts[data.ref].series
         IN NewInstance(insts, space,
               SeriesFromFamily(d.mu, d.eps, d.left, d.right, d.frozen))
    ELSE IF left = NoArg \/ right = NoArg
    THEN [instances |-> insts,
          outcome |-> RaiseInElement("ValueError",
                                     "Left or right vector is None.")]
    ELSE NewInstance(insts, space,
            SeriesFromList(data.mu, left.value, right.value))

\* A faulty variant of element: only left is tested for None, and the
\* series made with right None fails in its constructor.
element_testing_left(insts, space, data, left, right) ==
    IF data.kind = "element" /\ insts[data.ref].parent = space
    THEN [instances |-> insts, outcome |-> ReturnElement(data.ref)]
    ELSE IF data.kind = "element"
    THEN LET d == insts[data.ref].series
         IN NewInstance(insts, space,
               SeriesFromFamily(d.mu, d.eps, d.left, d.right, d.frozen))
    ELSE IF left = NoArg
    THEN [instances |-> insts,
          outcome |-> RaiseInElement("ValueError",
                                     "Left or right vector is None.")]
    ELSE IF right = NoArg
    THEN [instances |-> insts,
          outcome |-> RaiseInElement("TypeError", "")]
    ELSE NewInstance(insts, space,
            SeriesFromList(data.mu, left.value, right.value))

\* The element of _element_constructor_ when data is not the int 0: data
\* itself when it is an instance of this space, an instance made of the
\* mu, left and right of data when data is an instance of another space,
\* and else an instance made of data, left and right, which must both be
\* given
element(insts, space, data, left, right) ==
    IF data.kind = "element" /\ insts[data.ref].parent = space
    THEN [instances |-> insts, outcome |-> ReturnElement(data.ref)]
    ELSE IF data.kind = "element"
    THEN LET d == insts[data.ref].series
         IN NewInstance(insts, space,
               SeriesFromFamily(d.mu, d.eps, d.left, d.right, d.frozen))
    ELSE IF left = NoArg \/ right = NoArg
    THEN [instances |-> insts,
          outcome |-> RaiseInElement("ValueError",
                                     "Left or right vector is None.")]
    ELSE NewInstance(insts, space,
            SeriesFromList(data.mu, left.value, right.value))

\* RecognizableSeriesSpace._element_constructor_(data, left, right,
\* transpose): the zero series for the int 0, and else the element or, with
\* transpose, the new instance element.transposed()
element_constructor(insts, space, data, left, right, transpose) ==
    IF data.kind = "int" /\ data.value = 0
    THEN NewInstance(insts, space, zero)
    ELSE LET e == element(insts, space, data, left, right)
         IN IF e.outcome.raised # "" \/ ~transpose THEN e
            ELSE NewInstance(e.instances, space,
                    transposed(e.instances[e.outcome.ref].series))

-----------------------------------------------------------------------------
(* The series the operations are called on. *)

\* Every series of dimension 1, mu given as a tuple
InputsDim1 ==
    {SeriesFromList(<< <<<<a>>>>, <<<<b>>>> >>, <<l>>, <<r>>) :
        a \in Coefficients, b \in Coefficients,
        l \in Coefficients, r \in Coefficients}

\* Pairs (mu[0], mu[1]) of dimension 2: those of the doctests, reduced to
\* the coefficient field, and pairs with a nilpotent or a singular matrix
MuPairs2 ==
    { << <<<<0, 0>>, <<0, 0>>>>, <<<<0, 0>>, <<0, 0>>>> >>,
      << <<<<1, 0>>, <<0, 1>>>>, <<<<1, 0>>, <<0, 1>>>> >>,
      << <<<<1, 0>>, <<0, 1>>>>, <<<<0, 2>>, <<1, 2>>>> >>,
      << <<<<0, 1>>, <<0, 1>>>>, <<<<0, 0>>, <<0, 1>>>> >>,
      << <<<<0, 0>>, <<0, 1>>>>, <<<<0, 1>>, <<0, 1>>>> >>,
      << <<<<2, 0>>, <<2, 1>>>>, <<<<0, 1>>, <<1, 0>>>> >>,
      << <<<<2, 0>>, <<1, 1>>>>, <<<<2, 0>>, <<2, 1>>>> >>,
      << <<<<0, 0>>, <<0, 1>>>>, <<<<0, 0>>, <<1, 2>>>> >>,
      << <<<<1, 0>>, <<0, 0>>>>, <<<<1, 0>>, <<0, 0>>>> >>,
      << <<<<0, 1>>, <<0, 0>>>>, <<<<1, 1>>, <<0, 1>>>> >> }

VectorsDim2 == {<<0, 0>>, <<1, 0>>, <<0, 1>>, <<1, 1>>, <<1, 2>>}

InputsDim2 ==
    {SeriesFromList(m, l, r) :
        m \in MuPairs2, l \in VectorsDim2, r \in VectorsDim2}

\* Series of dimension 3: the minimized Hadamard product of the doctest of
\* hadamard_product, and a shift
MuPairs3 ==
    { << <<<<0, 1, 0>>, <<0, 2, 0>>, <<0, 2, 1>>>>,
         <<<<0, 0, 0>>, <<0, 0, 1>>, <<0, 1, 0>>>> >>,
      << <<<<0, 1, 0>>, <<0, 0, 1>>, <<0, 0, 0>>>>,
         <<<<1, 0, 0>>, <<0, 1, 0>>, <<0, 0, 2>>>> >> }

VectorsDim3 == {<<1, 0, 0>>, <<0, 0, 2>>, <<1, 1, 1>>, <<0, 1, 2>>}

InputsDim3 ==
    {SeriesFromList(m, l, r) :
        m \in MuPairs3, l \in VectorsDim3, r \in VectorsDim3}

\* Series whose family mu has the empty word among its keys (the doctest of
\* _mu_of_empty_word_): the image E of the empty word and (mu[0], mu[1]).
\* __init__ takes any matrix for E: the identity matrix, a matrix that is
\* not the identity matrix but leaves mu[0] and mu[1] as they are when
\* multiplied from either side, and a matrix that does not.
MuWithEps2 ==
    { << <<<<1, 0>>, <<0, 1>>>>, <<<<1, 0>>, <<0, 1>>>>, <<<<0, 2>>, <<1, 2>>>> >>,
      << <<<<1, 0>>, <<0, 1>>>>, <<<<2, 0>>, <<2, 1>>>>, <<<<0, 1>>, <<1, 0>>>> >>,
      << <<<<1, 0>>, <<0, 1>>>>, <<<<0, 1>>, <<0, 0>>>>, <<<<1, 1>>, <<0, 1>>>> >>,
      << <<<<1, 0>>, <<0, 0>>>>, <<<<1, 0>>, <<0, 0>>>>, <<<<2, 0>>, <<0, 0>>>> >>,
      << <<<<1, 0>>, <<0, 0>>>>, <<<<0, 0>>, <<0, 0>>>>, <<<<1, 0>>, <<0, 0>>>> >>,
      << <<<<1, 1>>, <<0, 0>>>>, <<<<1, 1>>, <<0, 0>>>>, <<<<2, 2>>, <<0, 0>>>> >>,
      << <<<<0, 1>>, <<0, 0>>>>, <<<<0, 0>>, <<1, 0>>>>, <<<<0, 0>>, <<0, 0>>>> >> }

InputsWithEps ==
    {SeriesFromDict(<<m[2], m[3]>>, <<m[1]>>, l, r) :
        m \in MuWithEps2, l \in VectorsDim2, r \in VectorsDim2}

\* Series made from a family (no dict, list or tuple) of matrices that the
\* caller did not make immutable
InputsFromFamily ==
    {SeriesFromFamily(m, <<>>, <<1, 0>>, <<0, 1>>, FALSE) :
        m \in { << <<<<1, 0>>, <<0, 1>>>>, <<<<0, 2>>, <<1, 2>>>> >>,
                 << <<<<2, 0>>, <<2, 1>>>>, <<<<0, 1>>, <<1, 0>>>> >> }}

Inputs ==
    {zero} \cup InputsDim1 \cup InputsDim2 \cup InputsDim3
        \cup InputsWithEps \cup InputsFromFamily

\* The series _add_ and hadamard_product are called on
VectorsBinary == {<<>>, <<1>>, <<2>>, <<1, 0>>, <<0, 1>>, <<1, 1>>}

InputsBinary ==
    {Sr \in Inputs : /\ dimension(Sr) <= 2
                     /\ Sr.left \in VectorsBinary
                     /\ Sr.right \in VectorsBinary}

\* The other operand of _add_ and hadamard_product: zero, one_hadamard, the
\* indicator series E and O and the series C of the doctests, and a series
\* with an image of the empty word
Others ==
    { zero,
      SeriesFromList(<< <<<<1>>>>, <<<<1>>>> >>, <<1>>, <<1>>),
      SeriesFromList(<< <<<<0, 1>>, <<0, 1>>>>, <<<<0, 0>>, <<0, 1>>>> >>,
                     <<1, 0>>, <<1, 1>>),
      SeriesFromList(<< <<<<0, 0>>, <<0, 1>>>>, <<<<0, 1>>, <<0, 1>>>> >>,
                     <<1, 0>>, <<0, 1>>),
      SeriesFromList(<< <<<<2, 0>>, <<2, 1>>>>, <<<<0, 1>>, <<1, 0>>>> >>,
                     <<1, 0>>, <<0, 1>>),
      SeriesFromDict(<< <<<<1, 0>>, <<0, 0>>>>, <<<<1, 0>>, <<0, 0>>>> >>,
                       << <<<<1, 0>>, <<0, 0>>>> >>, <<1, 1>>, <<1, 1>>) }

\* An invertible matrix of each dimension and its inverse, for a change of
\* the basis of a representation
BasisChange(n) ==
    IF n = 1 THEN <<<<2>>>>
    ELSE IF n = 2 THEN <<<<1, 1>>, <<0, 1>>>>
    ELSE IF n = 3 THEN <<<<1, 1, 0>>, <<0, 1, 0>>, <<0, 0, 1>>>>
    ELSE <<>>

BasisChangeInverse(n) ==
    IF n = 1 THEN <<<<2>>>>
    ELSE IF n = 2 THEN <<<<1, 2>>, <<0, 1>>>>
    ELSE IF n = 3 THEN <<<<1, 2, 0>>, <<0, 1, 0>>, <<0, 0, 1>>>>
    ELSE <<>>

\* The series Sr in another basis: the matrices B * M * B^-1, the vectors
\* left * B^-1 and B * right
InOtherBasis(Sr) ==
    LET B == BasisChange(dimension(Sr))
        Binv == BasisChangeInverse(dimension(Sr))
    IN SeriesFromDict(
            Tup([i \in 1..Len(Sr.mu) |-> MatMul(MatMul(B, Sr.mu[i]), Binv)]),
            IF Sr.eps # <<>> THEN <<MatMul(MatMul(B, Sr.eps[1]), Binv)>>
            ELSE <<>>,
            VecMat(Sr.left, Binv), MatVec(B, Sr.right))

\* A series of dimension 1 with the coefficient 0 at every word, and a series
\* with a part of this kind: dimension(Sr) + 1 and the coefficients of Sr
ZeroValued == SeriesFromList(<< <<<<1>>>>, <<<<1>>>> >>, <<1>>, <<0>>)

Padded(Sr) == add(Sr, ZeroValued, FALSE)

\* Two series have the same coefficient at every word: series of the
\* dimensions m and n that agree at the words shorter than m + n agree at
\* every word.
SameCoefficients(Sr, other) ==
    \A w \in WordsUpTo(dimension(Sr) + dimension(other) - 1) :
        Coeff(other, w) = Coeff(Sr, w)

\* The series a second series is taken from when two series are compared
Representations(Sr) ==
    {zero, InOtherBasis(Sr), Padded(Sr)}
        \cup InputsDim3

-----------------------------------------------------------------------------
(* The operations of a series as actions: S is the series the method is    *)
(* called on, R what the method returned.  A method is called on a series  *)
(* as it was constructed; the result of minimized can be minimized again.  *)

Call(name, w, c, flag1, flag2) ==
    [name |-> name, w |-> w, c |-> c, flag1 |-> flag1, flag2 |-> flag2]

\* lastAdd: the word and the check of the call, elements as the call found
\* it, whether the call raised and the error it raised
NoAdd == [w |-> <<>>, check |-> TRUE, raised |-> FALSE, called |-> FALSE,
          before |-> PrefixClosedSetInit, error |-> <<>>]

\* No generator yet
NoGenerator == [status |-> "none", n |-> 1, i |-> 1]

pcsVars == <<elements, lastAdd, allChecked, gen, yielded>>

\* No iterator yet
NoIterator == [status |-> "none", id |-> 0, pos |-> 1, empty |-> FALSE,
               given |-> <<>>]

extVars == <<LeftRows, it, spaces, instances, calls>>

\* Nothing but the series exists: no running _minimized_left_, no iterator,
\* no space and no instance
InitExt ==
    /\ LeftRows = <<>>
    /\ it = NoIterator
    /\ spaces = <<>>
    /\ instances = <<>>
    /\ calls = <<>>

Init ==
    /\ S \in Inputs
    /\ T = zero
    /\ op = Call("init", <<>>, 0, FALSE, FALSE)
    /\ R = S
    /\ elements = PrefixClosedSetInit
    /\ lastAdd = NoAdd
    /\ allChecked = TRUE
    /\ gen = NoGenerator
    /\ yielded = <<>>
    /\ InitExt

\* S.coefficient_of_word(w, multiply_left, multiply_right)
CoefficientOfWord ==
    \E w \in WordsUpTo(MaxWordLen), ml \in BOOLEAN, mr \in BOOLEAN :
        /\ op.name = "init"
        /\ R' = coefficient_of_word(S, w, ml, mr)
        /\ op' = Call("coefficient_of_word", w, 0, ml, mr)
        /\ UNCHANGED <<S, T, pcsVars, extVars>>

\* S.minimized()
Minimized ==
    /\ op.name = "init"
    /\ R' = minimized(S)
    /\ op' = Call("minimized", <<>>, 0, FALSE, FALSE)
    /\ UNCHANGED <<S, T, pcsVars, extVars>>

\* M = S.minimized() is minimized in its turn: M.minimized()
MinimizedAgain ==
    /\ op.name = "minimized"
    /\ ~Raised(R)
    /\ T' = S
    /\ S' = R
    /\ R' = minimized(R)
    /\ op' = Call("minimized_again", <<>>, 0, FALSE, FALSE)
    /\ UNCHANGED <<pcsVars, extVars>>

\* S.transposed()
Transposed ==
    /\ op.name = "init"
    /\ R' = transposed(S)
    /\ op' = Call("transposed", <<>>, 0, FALSE, FALSE)
    /\ UNCHANGED <<S, T, pcsVars, extVars>>

\* T = S.transposed() is transposed in its turn: T.transposed()
TransposedAgain ==
    /\ op.name = "transposed"
    /\ T' = S
    /\ S' = R
    /\ R' = transposed(R)
    /\ op' = Call("transposed_again", <<>>, 0, FALSE, FALSE)
    /\ UNCHANGED <<pcsVars, extVars>>

\* -S; T keeps the operand as the call found it, here and in _rmul_ and
\* _lmul_
Neg ==
    /\ op.name = "init"
    /\ R' = neg(S)
    /\ T' = S
    /\ op' = Call("neg", <<>>, 0, FALSE, FALSE)
    /\ UNCHANGED <<S, pcsVars, extVars>>

\* S._rmul_(c)
Rmul ==
    \E c \in Coefficients :
        /\ op.name = "init"
        /\ R' = rmul(S, c)
        /\ T' = S
        /\ op' = Call("rmul", <<>>, c, FALSE, FALSE)
        /\ UNCHANGED <<S, pcsVars, extVars>>

\* S._lmul_(c)
Lmul ==
    \E c \in Coefficients :
        /\ op.name = "init"
        /\ R' = lmul(S, c)
        /\ T' = S
        /\ op' = Call("lmul", <<>>, c, FALSE, FALSE)
        /\ UNCHANGED <<S, pcsVars, extVars>>

\* S._add_(other, minimize), also with other = -S
Add ==
    \E other \in Others \cup {neg(S)}, minimize \in BOOLEAN :
        /\ op.name = "init"
        /\ S \in InputsBinary
        /\ T' = other
        /\ R' = add(S, other, minimize)
        /\ op' = Call("add", <<>>, 0, minimize, FALSE)
        /\ UNCHANGED <<S, pcsVars, extVars>>

\* S.hadamard_product(other, minimize)
Hadamard ==
    \E other \in Others, minimize \in BOOLEAN :
        /\ op.name = "init"
        /\ S \in InputsBinary
        /\ T' = other
        /\ R' = hadamard_product(S, other, minimize)
        /\ op' = Call("hadamard_product", <<>>, 0, minimize, FALSE)
        /\ UNCHANGED <<S, pcsVars, extVars>>

\* S.is_trivial_zero()
IsTrivialZero ==
    /\ op.name = "init"
    /\ R' = is_trivial_zero(S)
    /\ op' = Call("is_trivial_zero", <<>>, 0, FALSE, FALSE)
    /\ UNCHANGED <<S, T, pcsVars, extVars>>

\* bool(S)
Nonzero ==
    /\ op.name = "init"
    /\ R' = nonzero(S)
    /\ op' = Call("bool", <<>>, 0, FALSE, FALSE)
    /\ UNCHANGED <<S, T, pcsVars, extVars>>

Next ==
    \/ CoefficientOfWord
    \/ Minimized
    \/ MinimizedAgain
    \/ Transposed
    \/ TransposedAgain
    \/ Neg
    \/ Rmul
    \/ Lmul
    \/ Add
    \/ Hadamard
    \/ IsTrivialZero
    \/ Nonzero

Spec == Init /\ [][Next]_vars

-----------------------------------------------------------------------------
(* The operations on two series alone: S + other and the Hadamard product   *)
(* of S and other, for the laws that relate their coefficients.             *)

NextBinary ==
    \/ Add
    \/ Hadamard

SpecBinary == Init /\ [][NextBinary]_vars

-----------------------------------------------------------------------------
(* The prefix-closed set as a state machine of its own: add is called with *)
(* any word and any check on the set as the calls before left it.          *)

InitPCS ==
    /\ S = zero
    /\ T = zero
    /\ op = Call("init", <<>>, 0, FALSE, FALSE)
    /\ R = zero
    /\ elements = PrefixClosedSetInit
    /\ lastAdd = NoAdd
    /\ allChecked = TRUE
    /\ gen = NoGenerator
    /\ yielded = <<>>
    /\ InitExt

\* P.add(w, check) as the caller sees it: the error, or the word appended
\* and None returned
AddCall(w, check) ==
    /\ IF AddRaises(elements, w, check)
       THEN /\ lastAdd' = [w |-> w, check |-> check,
                           raised |-> TRUE, called |-> TRUE,
                           before |-> elements, error |-> <<AddError(w)>>]
            /\ R' = AddError(w)
            /\ UNCHANGED <<elements, allChecked>>
       ELSE /\ elements' = AddResult(elements, w)
            /\ lastAdd' = [w |-> w, check |-> check,
                           raised |-> FALSE, called |-> TRUE,
                           before |-> elements, error |-> <<>>]
            /\ R' = None
            /\ allChecked' = (allChecked /\ check)
    /\ op' = Call("add", w, 0, check, FALSE)
    /\ UNCHANGED <<S, T>>

\* PrefixClosedSet.add(w, check)
PrefixClosedSetAdd ==
    \E w \in WordsUpTo(MaxAddLen), check \in BOOLEAN :
        /\ Len(elements) < MaxElements
        /\ AddCall(w, check)
        /\ UNCHANGED <<gen, yielded, extVars>>

\* PrefixClosedSet.prefix_set()
PrefixSet ==
    /\ R' = prefix_set(elements)
    /\ op' = Call("prefix_set", <<>>, 0, FALSE, FALSE)
    /\ UNCHANGED <<S, T, pcsVars, extVars>>

NextPCS ==
    \/ PrefixClosedSetAdd
    \/ PrefixSet

SpecPCS == InitPCS /\ [][NextPCS]_vars

-----------------------------------------------------------------------------
(* populate_interactive and its caller: the caller takes the candidates    *)
(* with next() and hands some of them to add before it takes the next      *)
(* one, as the loop of _minimized_left_ does.                               *)

\* P.populate_interactive(): the generator is made, its body has not run
PopulateInteractive ==
    /\ gen.status = "none"
    /\ gen' = [status |-> "running", n |-> 1, i |-> 1]
    /\ op' = Call("populate_interactive", <<>>, 0, FALSE, FALSE)
    /\ R' = None
    /\ UNCHANGED <<S, T, elements, lastAdd, allChecked, yielded, extVars>>

\* next() on the generator: a candidate, or the end
GeneratorNext ==
    /\ gen.status = "running"
    /\ LET r == GeneratorStep(elements, gen.n, gen.i)
       IN /\ gen' = [status |-> r.status, n |-> r.n, i |-> r.i]
          /\ IF r.status = "done"
             THEN R' = StopIteration /\ UNCHANGED yielded
             ELSE R' = Yielded(r.word) /\ yielded' = Append(yielded, r.word)
    /\ op' = Call("next", <<>>, 0, FALSE, FALSE)
    /\ UNCHANGED <<S, T, elements, lastAdd, allChecked, extVars>>

\* The caller adds the candidate it was just given: P.add(p)
AcceptCandidate ==
    /\ op.name = "next"
    /\ gen.status = "running"
    /\ Len(elements) <= MaxAccepted
    /\ AddCall(R.word, TRUE)
    /\ UNCHANGED <<gen, yielded, extVars>>

NextGen ==
    \/ PopulateInteractive
    \/ GeneratorNext
    \/ AcceptCandidate

\* The caller goes on asking for candidates as long as the generator runs.
SpecGen == InitPCS /\ [][NextGen]_vars /\ WF_vars(GeneratorNext)

-----------------------------------------------------------------------------
(* _minimized_left_ step by step: the call up to the loop, then one         *)
(* candidate of populate_interactive for each step, and the construction of *)
(* the result after the loop.  elements, gen and yielded are those of the   *)
(* PrefixClosedSet pcs of the call, LeftRows is Left.                       *)

\* S._minimized_left_() is called: pcs, the row of the empty word, the
\* return of zero() when this row is zero, and else Left and the generator
MinimizedLeftCall ==
    /\ op.name = "init"
    /\ op' = Call("_minimized_left_", <<>>, 0, FALSE, FALSE)
    /\ elements' = PrefixClosedSetInit
    /\ yielded' = <<>>
    /\ LET left == coefficient_of_word(S, PrefixClosedSetInit[1], TRUE, FALSE)
       IN IF IsZeroVector(left)
          THEN /\ R' = zero
               /\ LeftRows' = <<>>
               /\ gen' = NoGenerator
          ELSE /\ R' = None
               /\ LeftRows' = <<left>>
               /\ gen' = [status |-> "running", n |-> 1, i |-> 1]
    /\ UNCHANGED <<S, T, lastAdd, allChecked, it, spaces, instances, calls>>

\* One turn of "for p in pcs.populate_interactive()": the next candidate,
\* its row, the solve, and pcs.add and Left.append when the solve raises;
\* the loop is left when the generator ends.  An error of pcs.add leaves the
\* method.
MinimizedLeftLoop ==
    /\ op.name = "_minimized_left_"
    /\ gen.status = "running"
    /\ LET r == GeneratorStep(elements, gen.n, gen.i)
       IN IF r.status = "done"
          THEN /\ gen' = [status |-> "done", n |-> r.n, i |-> r.i]
               /\ R' = None
               /\ UNCHANGED <<elements, yielded, LeftRows, lastAdd>>
          ELSE LET left == coefficient_of_word(S, r.word, TRUE, FALSE)
               IN /\ yielded' = Append(yielded, r.word)
                  /\ IF ~NoSolution(LeftRows, left)
                     THEN /\ gen' = [status |-> "running", n |-> r.n, i |-> r.i]
                          /\ R' = None
                          /\ UNCHANGED <<elements, LeftRows, lastAdd>>
                     ELSE /\ lastAdd' = [w |-> r.word, check |-> TRUE,
                                         raised |-> AddRaises(elements, r.word, TRUE),
                                         called |-> TRUE, before |-> elements,
                                         error |-> IF AddRaises(elements, r.word, TRUE)
                                                   THEN <<AddError(r.word)>>
                                                   ELSE <<>>]
                          /\ IF AddRaises(elements, r.word, TRUE)
                             THEN /\ gen' = [status |-> "abandoned",
                                             n |-> r.n, i |-> r.i]
                                  /\ R' = AddError(r.word)
                                  /\ UNCHANGED <<elements, LeftRows>>
                             ELSE /\ gen' = [status |-> "running",
                                             n |-> r.n, i |-> r.i]
                                  /\ R' = None
                                  /\ elements' = AddResult(elements, r.word)
                                  /\ LeftRows' = Append(LeftRows, left)
    /\ UNCHANGED <<S, T, op, allChecked, it, spaces, instances, calls>>

\* After the loop: P, C, alpha, mu_prime, left_prime and right_prime, and
\* the return of the new series; an error of alpha leaves the method.
MinimizedLeftBuild ==
    /\ op.name = "_minimized_left_"
    /\ gen.status = "done"
    /\ R = None
    /\ R' = MinBuild(S, elements, LeftRows)
    /\ UNCHANGED <<S, T, op, pcsVars, extVars>>

NextMin ==
    \/ MinimizedLeftCall
    \/ MinimizedLeftLoop
    \/ MinimizedLeftBuild

SpecMin == Init /\ [][NextMin]_vars

-----------------------------------------------------------------------------
(* Two series with the same coefficients are minimized.                     *)

\* S.minimized() and other.minimized() for a series other that has the
\* coefficient of S at every word
MinimizedPair ==
    \E other \in Representations(S) :
        /\ op.name = "init"
        /\ other # S
        /\ SameCoefficients(S, other)
        /\ T' = other
        /\ R' = <<minimized(S), minimized(other)>>
        /\ op' = Call("minimized_pair", <<>>, 0, FALSE, FALSE)
        /\ UNCHANGED <<S, pcsVars, extVars>>

NextPair ==
    \/ MinimizedPair

SpecPair == Init /\ [][NextPair]_vars

-----------------------------------------------------------------------------
(* The iterator of a series: iter(S) makes an iterator, next() on it starts *)
(* the generator, and the generator tries the words of the word domain one  *)
(* by one until it finds a nonzero coefficient.                             *)

\* iter(S)
IterCall ==
    /\ it.id < MaxIterators
    /\ it.status # "pending"
    /\ it' = NewIterator(S, it.id + 1)
    /\ op' = Call("__iter__", <<>>, 0, FALSE, FALSE)
    /\ R' = None
    /\ UNCHANGED <<S, T, pcsVars, LeftRows, spaces, instances, calls>>

\* next(it) is called: the generator is resumed
IterNext ==
    /\ it.status \in {"idle", "answered"}
    /\ it' = [it EXCEPT !.status = "pending"]
    /\ op' = Call("next", <<>>, 0, FALSE, FALSE)
    /\ R' = None
    /\ UNCHANGED <<S, T, pcsVars, LeftRows, spaces, instances, calls>>

\* The resumed generator tries one word
IterSearch ==
    /\ it.status = "pending"
    /\ it' = IteratorStep(S, it)
    /\ R' = IF it'.status = "answered"
            THEN Pair(IterWords[it.pos], Coeff(S, IterWords[it.pos]))
            ELSE IF it'.status = "exhausted" THEN StopIteration
            ELSE R
    /\ UNCHANGED <<S, T, op, pcsVars, LeftRows, spaces, instances, calls>>

NextIter ==
    \/ IterCall
    \/ IterNext
    \/ IterSearch

\* A generator that was resumed goes on running.
SpecIter == Init /\ [][NextIter]_vars /\ WF_vars(IterSearch)

-----------------------------------------------------------------------------
(* The construction of spaces: RecognizableSeriesSpace is called with any   *)
(* arguments, on the spaces the calls before made.  calls keeps, for each   *)
(* call, its arguments, how it ended and the number of spaces before and    *)
(* after it.                                                                *)

InitSpace ==
    /\ S = zero
    /\ T = zero
    /\ op = Call("init", <<>>, 0, FALSE, FALSE)
    /\ R = None
    /\ elements = PrefixClosedSetInit
    /\ lastAdd = NoAdd
    /\ allChecked = TRUE
    /\ gen = NoGenerator
    /\ yielded = <<>>
    /\ InitExt

\* The alphabet is the second positional argument or the keyword argument
\* alphabet=; both bind the parameter alphabet of __normalize__
AlphabetArguments ==
    {[value |-> NoArg, how |-> "keyword"],
     [value |-> AlphabetArg, how |-> "positional"],
     [value |-> AlphabetArg, how |-> "keyword"],
     [value |-> InfiniteAlphabet, how |-> "positional"]}

\* RecognizableSeriesSpace(coefficients, alphabet, indices, category)
SpaceCall ==
    \E coefficients \in {NoArg, SemiringArg, NotASemiring},
       a \in AlphabetArguments,
       indices \in {NoArg, Words(AlphabetArg), Words(InfiniteAlphabet)},
       category \in {NoArg, Modules(SemiringArg), OtherCategory} :
        LET r == classcall(spaces, coefficients, a.value, indices, category)
        IN /\ Len(calls) < MaxCalls
           /\ spaces' = r.spaces
           /\ R' = r.outcome
           /\ calls' = Append(calls,
                  [coefficients |-> coefficients, alphabet |-> a.value,
                   how |-> a.how, indices |-> indices, category |-> category,
                   outcome |-> r.outcome, before |-> Len(spaces),
                   after |-> Len(r.spaces)])
           /\ op' = Call("RecognizableSeriesSpace", <<>>, 0, FALSE, FALSE)
           /\ UNCHANGED <<S, T, pcsVars, LeftRows, it, instances>>

NextSpace ==
    \/ SpaceCall

SpecSpace == InitSpace /\ [][NextSpace]_vars

-----------------------------------------------------------------------------
(* The construction of elements: two spaces that differ in their category   *)
(* exist, and either is called with 0, with an instance of either space or  *)
(* with matrices, with and without left, right and transpose.  op keeps the *)
(* arguments of the call and the instances as the call found them.          *)

TwoSpaces ==
    classcall(classcall(<<>>, SemiringArg, AlphabetArg, NoArg, NoArg).spaces,
              SemiringArg, AlphabetArg, NoArg, OtherCategory).spaces

InitElement ==
    /\ S = zero
    /\ T = zero
    /\ op = Call("init", <<>>, 0, FALSE, FALSE)
    /\ R = None
    /\ elements = PrefixClosedSetInit
    /\ lastAdd = NoAdd
    /\ allChecked = TRUE
    /\ gen = NoGenerator
    /\ yielded = <<>>
    /\ LeftRows = <<>>
    /\ it = NoIterator
    /\ spaces = TwoSpaces
    /\ instances = <<>>
    /\ calls = <<>>

\* The matrices and vectors of the doctest, over the coefficient field
DoctestMatrices == << <<<<1, 0>>, <<0, 1>>>>, <<<<0, 2>>, <<1, 2>>>> >>

DataArguments ==
    {IntData(0), MatricesData(DoctestMatrices)}
        \cup {ElementData(k) : k \in 1..Len(instances)}

\* Rec(data, left, right, transpose) for a space Rec
ElementConstructorCall ==
    \E space \in 1..Len(spaces), data \in DataArguments,
       left \in {NoArg, VectorArg(<<0, 1>>)},
       right \in {NoArg, VectorArg(<<1, 1>>)}, transpose \in BOOLEAN :
        LET r == element_constructor(instances, space, data, left, right,
                                     transpose)
        IN /\ Len(r.instances) <= MaxInstances
           /\ instances' = r.instances
           /\ R' = r.outcome
           /\ op' = [name |-> "_element_constructor_", space |-> space,
                     data |-> data, left |-> left, right |-> right,
                     transpose |-> transpose, before |-> instances]
           /\ UNCHANGED <<S, T, pcsVars, LeftRows, it, spaces, calls>>

NextElement ==
    \/ ElementConstructorCall

SpecElement == InitElement /\ [][NextElement]_vars

-----------------------------------------------------------------------------
(* Properties. *)

\* The words on which two series are compared.  The series of the model
\* have dimension at most 3, sums at most 5 and Hadamard products at most 6.
ComparedWords == WordsUpTo(MaxWordLen + 2)

HasNonzeroCoefficient(Sr) == \E w \in ComparedWords : Coeff(Sr, w) # 0

AllCoefficientsZero(Sr) == \A w \in ComparedWords : Coeff(Sr, w) = 0

\* C1.  Minimization soundness: minimized() returns a series, and this
\* series has the coefficient of S at every word.
MinimizationSoundness ==
    op.name \in {"minimized", "minimized_again"} =>
        /\ ~Raised(R)
        /\ \A w \in ComparedWords : Coeff(R, w) = Coeff(S, w)

\* C2.  Minimization never increases the dimension:
\* S.minimized().dimension() <= S.dimension().
MinimizationNeverIncreasesDimension ==
    (op.name \in {"minimized", "minimized_again"} /\ ~Raised(R)) =>
        dimension(R) <= dimension(S)

\* C2 happens: a series of dimension 3 was minimized and kept its
\* dimension.
MinimizationKeepsDimensionWitness ==
    /\ op.name = "minimized"
    /\ ~Raised(R)
    /\ dimension(S) = 3
    /\ dimension(R) = 3

\* C3.  Minimization is idempotent: with M = S.minimized(), M.minimized()
\* is M, matrix for matrix and vector for vector, and so has M's dimension.
MinimizationIdempotent ==
    op.name = "minimized_again" =>
        /\ ~Raised(R)
        /\ dimension(R) = dimension(S)
        /\ R = S

\* C3 happens: a series of dimension 3 was minimized to M of dimension 2,
\* and M was minimized.
MinimizationIdempotentWitness ==
    /\ op.name = "minimized_again"
    /\ dimension(T) = 3
    /\ dimension(S) = 2

\* C4.  A series all of whose coefficients are zero minimizes to the series
\* of dimension 0: directly, as a sum (S + (-S) among them) and as a
\* Hadamard product.
AllZeroMinimizesToZero ==
    /\ (op.name = "minimized" /\ AllCoefficientsZero(S)) => R = zero
    /\ (op.name = "add" /\ op.flag1 /\ AllCoefficientsZero(add(S, T, FALSE)))
            => R = zero
    /\ (/\ op.name = "hadamard_product"
        /\ op.flag1
        /\ AllCoefficientsZero(hadamard_product(S, T, FALSE)))
            => R = zero

\* The image of w under the morphism the claim describes: the image of the
\* empty word is the one the family supplies, or else the identity, and
\* mu(w.a) = mu(w) * mu(a).
RECURSIVE MorphismImage(_, _)
MorphismImage(Sr, w) ==
    IF w = <<>>
    THEN IF Sr.eps # <<>> THEN Sr.eps[1] ELSE IdentityMatrix(dimension(Sr))
    ELSE MatMul(MorphismImage(Sr, SubSeq(w, 1, Len(w) - 1)),
                Sr.mu[LetterIndex(w[Len(w)])])

\* C5.  Coefficient consistency: coefficient_of_word(w) is left * mu(w) *
\* right for the morphism mu, without left when multiply_left is off and
\* without right when multiply_right is off, and mu(w.a) = mu(w) * mu(a).
CoefficientConsistency ==
    op.name = "coefficient_of_word" =>
        LET m == MorphismImage(S, op.w)
        IN /\ R = IF op.flag1
                  THEN IF op.flag2 THEN Dot(S.left, MatVec(m, S.right))
                                   ELSE VecMat(S.left, m)
                  ELSE IF op.flag2 THEN MatVec(m, S.right) ELSE m
           /\ mu_of_word(S, op.w) = m
           /\ \A a \in Letters :
                mu_of_word(S, Append(op.w, a))
                    = MatMul(mu_of_word(S, op.w), mu_of_word(S, <<a>>))

\* C6.  Additivity: (S1 + S2)[w] = S1[w] + S2[w] at every word w, for the
\* minimized sum and for the sum built with minimize=False.
Additivity ==
    op.name = "add" =>
        /\ ~Raised(R)
        /\ \A w \in WordsUpTo(MaxWordLen + 1) :
                Coeff(R, w) = KAdd(Coeff(S, w), Coeff(T, w))

\* C7.  Scalar linearity with an untouched mu: (-S)[w] = -(S[w]),
\* (c*S)[w] = c*S[w] and (S*c)[w] = S[w]*c; _neg_ and _lmul_ change only
\* left, _rmul_ changes only right, mu is the operand's, and the operand is
\* after the call what it was before.
ScalarLinearity ==
    /\ op.name \in {"neg", "lmul", "rmul"} => S = T
    /\ op.name = "neg" =>
        /\ R.mu = S.mu /\ R.eps = S.eps /\ R.right = S.right
        /\ \A w \in WordsUpTo(MaxWordLen) : Coeff(R, w) = KNeg(Coeff(S, w))
    /\ op.name = "lmul" =>
        /\ R.mu = S.mu /\ R.eps = S.eps /\ R.right = S.right
        /\ \A w \in WordsUpTo(MaxWordLen) : Coeff(R, w) = KMul(op.c, Coeff(S, w))
    /\ op.name = "rmul" =>
        /\ R.mu = S.mu /\ R.eps = S.eps /\ R.left = S.left
        /\ \A w \in WordsUpTo(MaxWordLen) : Coeff(R, w) = KMul(Coeff(S, w), op.c)

\* C7 happens: a series of dimension 2 with a nonzero coefficient was
\* negated.
ScalarLinearityWitness ==
    /\ op.name = "neg"
    /\ dimension(S) = 2
    /\ HasNonzeroCoefficient(S)
    /\ R.left # S.left

\* C8.  Hadamard law: S1.hadamard_product(S2)[w] = S1[w] * S2[w] at every
\* word w, with and without minimization, and the product that is not
\* minimized has dimension S1.dimension() * S2.dimension().
HadamardLaw ==
    op.name = "hadamard_product" =>
        /\ ~Raised(R)
        /\ \A w \in WordsUpTo(MaxWordLen + 1) :
                Coeff(R, w) = KMul(Coeff(S, w), Coeff(T, w))
        /\ ~op.flag1 => dimension(R) = dimension(S) * dimension(T)

\* C9.  Transpose reverses words: T = S.transposed() has the transposes of
\* the matrices of S, left and right swapped, and T[w] = S[reverse of w];
\* T.transposed() has the mu, left and right of S.
TransposeReversesWords ==
    /\ op.name = "transposed" =>
        /\ \A i \in 1..Len(Alphabet), r \in 1..dimension(S),
              c \in 1..dimension(S) : R.mu[i][r][c] = S.mu[i][c][r]
        /\ dimension(R) = dimension(S)
        /\ R.left = S.right
        /\ R.right = S.left
        /\ \A w \in ComparedWords : Coeff(R, w) = Coeff(S, Reverse(w))
    /\ op.name = "transposed_again" =>
        /\ R.mu = T.mu
        /\ R.left = T.left
        /\ R.right = T.right

\* Every proper prefix of every element is an element.
PrefixClosed(els) ==
    \A k \in 1..Len(els) : \A p \in ProperPrefixes(els[k]) : InList(p, els)

\* C10 as stated.  After any sequence of successful add calls, whatever the
\* check argument of each call, every proper prefix of every element is an
\* element.
PrefixClosedSetInvariant == PrefixClosed(elements)

\* C10 amended.  After any sequence of successful add calls that were each
\* made with check=True, every proper prefix of every element is an
\* element.
PrefixClosedSetInvariantChecked == allChecked => PrefixClosed(elements)

\* C10 happens: the set was filled by checked calls up to a word of
\* length 2.
PrefixClosedSetInvariantWitness ==
    /\ allChecked
    /\ Len(elements) = MaxElements
    /\ \E k \in 1..Len(elements) : Len(elements[k]) = 2

\* Every proper prefix of an element sits at an earlier position.
PrefixesPrecede(els) ==
    \A k \in 1..Len(els) : \A p \in ProperPrefixes(els[k]) :
        \E j \in 1..(k - 1) : els[j] = p

\* C11.  add(w, check=True) raises an error that carries w if and only if a
\* proper prefix of w is not in elements, and then leaves elements as it
\* was; otherwise, and always with check=False, it appends w as the last
\* element and changes nothing else; so after checked calls every proper
\* prefix of an element sits at an earlier position than the element.
AddChecksPrefixes ==
    /\ lastAdd.called =>
        /\ lastAdd.raised <=>
            /\ lastAdd.check
            /\ \E k \in 0..(Len(lastAdd.w) - 1) :
                \A j \in 1..Len(lastAdd.before) :
                    lastAdd.before[j] # SubSeq(lastAdd.w, 1, k)
        /\ lastAdd.raised =>
            /\ elements = lastAdd.before
            /\ lastAdd.error = <<[raised |-> "ValueError", w |-> lastAdd.w]>>
        /\ ~lastAdd.raised =>
            /\ elements = lastAdd.before \o <<lastAdd.w>>
            /\ lastAdd.error = <<>>
    /\ allChecked => PrefixesPrecede(elements)

\* C11 happens: after a word was added, a checked call with a word of length
\* 2 whose prefix of length 1 is missing raised the error.
AddChecksPrefixesWitness ==
    /\ lastAdd.called
    /\ lastAdd.check
    /\ lastAdd.raised
    /\ Len(elements) = 2
    /\ Len(lastAdd.w) = 2
    /\ InList(<<>>, elements)

\* C12.  Candidate order of populate_interactive: the candidates are the
\* words e.a with e running over elements in insertion order, the elements
\* added during the iteration included, and for each e the letter a over
\* the alphabet in its order; every pair of a position and a letter is
\* yielded exactly once.
CandidateOrder ==
    /\ \A k \in 1..Len(yielded) :
        /\ ((k - 1) \div Len(Alphabet)) + 1 <= Len(elements)
        /\ yielded[k] = elements[((k - 1) \div Len(Alphabet)) + 1]
                            \o <<Alphabet[((k - 1) % Len(Alphabet)) + 1]>>
    /\ gen.status = "done" =>
            \E m \in 1..Len(elements) : Len(yielded) = Len(Alphabet) * m

\* C12 happens: the run of the docstring, with the candidates of the rounds
\* 0, 2, 3 and 5 added.
CandidateOrderWitness ==
    /\ gen.status = "done"
    /\ elements = << <<>>, <<0>>, <<0, 0>>, <<0, 1>>, <<0, 0, 1>> >>
    /\ yielded = << <<0>>, <<1>>, <<0, 0>>, <<0, 1>>, <<0, 0, 0>>,
                    <<0, 0, 1>>, <<0, 1, 0>>, <<0, 1, 1>>,
                    <<0, 0, 1, 0>>, <<0, 0, 1, 1>> >>

\* The generator runs with its cursor on an element, and when next() finds
\* the end the cursor has just passed the last element and every element
\* has given one candidate for each letter.
GeneratorEndsAtLen ==
    /\ gen.status = "running" => gen.n <= Len(elements)
    /\ (gen.status = "done" /\ op.name = "next") =>
        /\ gen.n = Len(elements) + 1
        /\ Len(yielded) = Len(Alphabet) * Len(elements)

\* C13.  Termination of populate_interactive: the generator ends exactly
\* when its cursor reaches len(elements); a caller that goes on asking and
\* appends finitely many elements sees the generator end, after (number of
\* letters) * (number of elements) candidates.
GeneratorTermination ==
    /\ []GeneratorEndsAtLen
    /\ (gen.status = "running") ~> (gen.status = "done")

\* C13 happens: the generator ended after the caller added as many
\* candidates as the bound allows.
GeneratorTerminationWitness ==
    /\ gen.status = "done"
    /\ op.name = "next"
    /\ Len(elements) = MaxAccepted + 1
    /\ Len(yielded) = Len(Alphabet) * (MaxAccepted + 1)

\* C14 as stated.  As long as the caller keeps asking for candidates the
\* generator keeps yielding them and never ends on its own.
GeneratorNeverEnds == gen.status # "done"

\* C14 amended.  The generator yields at most one candidate for each letter
\* and each element of the set, so it goes on only as long as the caller
\* keeps adding elements, and it ends on its own when asked for a candidate
\* after the last letter of the last element.
GeneratorYieldsBounded ==
    /\ [](Len(yielded) <= Len(Alphabet) * Len(elements))
    /\ [][(/\ gen.status = "running"
           /\ Len(yielded) = Len(Alphabet) * Len(elements)
           /\ op'.name = "next") => gen'.status = "done"]_vars

\* C14 happens: the caller added nothing, asked on, and the generator ended
\* after the two candidates of the empty word.
GeneratorYieldsBoundedWitness ==
    /\ gen.status = "done"
    /\ elements = PrefixClosedSetInit
    /\ yielded = << <<0>>, <<1>> >>

\* The words p.a of the double loop of prefix_set from element number k and
\* letter number i on
RECURSIVE Extensions(_, _, _)
Extensions(els, k, i) ==
    IF k > Len(els) THEN <<>>
    ELSE IF i > Len(Alphabet) THEN Extensions(els, k + 1, 1)
    ELSE IF \E j \in 1..Len(els) : els[j] = els[k] \o <<Alphabet[i]>>
         THEN Extensions(els, k, i + 1)
         ELSE <<els[k] \o <<Alphabet[i]>>>> \o Extensions(els, k, i + 1)

\* C15.  prefix_set() returns, in element order and then alphabet order,
\* exactly the words p.a with p an element and a a letter that are not
\* elements, and leaves elements as it was.
PrefixSetExtensions ==
    op.name = "prefix_set" =>
        /\ R = Extensions(elements, 1, 1)
        /\ \A k \in 1..Len(R) : ~InList(R[k], elements)
        /\ \A k \in 1..Len(elements), a \in Letters :
            InList(Append(elements[k], a), elements)
                \/ InList(Append(elements[k], a), R)
        /\ lastAdd.called =>
            elements = IF lastAdd.raised THEN lastAdd.before
                       ELSE Append(lastAdd.before, lastAdd.w)

\* C15 happens: prefix_set was called on a set of three words of which one
\* extends another, and returned some words.
PrefixSetExtensionsWitness ==
    /\ op.name = "prefix_set"
    /\ Len(elements) = 3
    /\ \E j \in 1..3, k \in 1..3, a \in Letters :
            elements[k] = Append(elements[j], a)
    /\ R # <<>>

\* C16.  Boolean value decides zero: bool(S) is False if and only if every
\* coefficient of S is zero; it is False when is_trivial_zero() holds,
\* otherwise False exactly when S.minimized() is trivially zero, and True
\* when the minimization raises.
BooleanDecidesZero ==
    op.name = "bool" =>
        /\ (R = FALSE) <=> AllCoefficientsZero(S)
        /\ is_trivial_zero(S) => R = FALSE
        /\ ~is_trivial_zero(S) =>
            LET M == minimized(S)
            IN R = IF Raised(M) THEN TRUE ELSE ~is_trivial_zero(M)

\* C17.  is_trivial_zero() is true exactly when left is the zero vector, or
\* right is the zero vector, or every matrix of a letter is zero and the
\* coefficient of the empty word is zero; when it is true, every
\* coefficient of the series is zero.
TrivialZeroSound ==
    op.name = "is_trivial_zero" =>
        /\ R <=> \/ \A k \in 1..Len(S.left) : S.left[k] = 0
                 \/ \A k \in 1..Len(S.right) : S.right[k] = 0
                 \/ /\ \A i \in 1..Len(Alphabet), r \in 1..dimension(S),
                          c \in 1..dimension(S) : S.mu[i][r][c] = 0
                    /\ Coeff(S, <<>>) = 0
        /\ R => AllCoefficientsZero(S)

\* C17 happens: a series with zero matrices and nonzero left and right whose
\* coefficient of the empty word is zero was found trivially zero.
TrivialZeroSoundWitness ==
    /\ op.name = "is_trivial_zero"
    /\ R = TRUE
    /\ ~IsZeroVector(S.left)
    /\ ~IsZeroVector(S.right)

\* C18.  Zero laws: zero() has dimension 0, an empty matrix for every letter
\* and empty left and right; zero().is_trivial_zero() is true, bool(zero())
\* is false and every coefficient of zero() is 0.
ZeroLaws ==
    /\ dimension(zero) = 0
    /\ \A i \in 1..Len(Alphabet) : zero.mu[i] = <<>>
    /\ zero.left = <<>> /\ zero.right = <<>>
    /\ S = zero =>
        /\ op.name = "is_trivial_zero" => R = TRUE
        /\ op.name = "bool" => R = FALSE
        /\ (op.name = "coefficient_of_word" /\ op.flag1 /\ op.flag2) => R = 0

\* C18 happens: the boolean value of zero() was taken.
ZeroLawsWitness ==
    /\ S = zero
    /\ op.name = "bool"

\* The operations that return a series
SeriesOperations ==
    {"minimized", "minimized_again", "transposed", "transposed_again",
     "neg", "rmul", "lmul", "add", "hadamard_product"}

\* C19.  Immutability: every series that exists after any sequence of
\* constructions and operations holds only immutable mu matrices, so that
\* nothing the caller holds can change a coefficient of the series.
SeriesImmutable ==
    /\ S.frozen
    /\ (op.name \in SeriesOperations /\ ~Raised(R)) => R.frozen

\* The words of the word domain in its order: by length, and words of one
\* length by the first letter in which they differ.
WordBefore(u, v) ==
    \/ Len(u) < Len(v)
    \/ /\ Len(u) = Len(v)
       /\ \E k \in 1..Len(u) :
            /\ SubSeq(u, 1, k - 1) = SubSeq(v, 1, k - 1)
            /\ LetterIndex(u[k]) < LetterIndex(v[k])

\* C20.  Iteration order and filtering: at every point of an iteration the
\* pairs the iterator has given are pairs (w, S[w]) with the words in the
\* order of the word domain and only words with a nonzero coefficient; no
\* word with a nonzero coefficient that the generator has passed is missing,
\* the pair a next() returned is the last of them, and the iterator of a
\* series whose boolean value is false (the iterator is made empty for
\* exactly these) gives nothing and ends at the first next().
IterationOrder ==
    /\ \A k \in 1..Len(it.given) :
        /\ it.given[k].coefficient = Coeff(S, it.given[k].word)
        /\ it.given[k].coefficient # 0
    /\ \A j \in 1..Len(it.given), k \in 1..Len(it.given) :
        j < k => WordBefore(it.given[j].word, it.given[k].word)
    /\ \A n \in 1..Len(IterWords) :
        (n < it.pos /\ Coeff(S, IterWords[n]) # 0)
            => \E k \in 1..Len(it.given) : it.given[k].word = IterWords[n]
    /\ it.status = "answered" => R = it.given[Len(it.given)]
    /\ it.status = "idle" => (it.empty <=> ~nonzero(S))
    /\ it.empty =>
        /\ it.given = <<>>
        /\ it.status \in {"idle", "pending", "exhausted"}
        /\ it.status = "exhausted" => R = StopIteration

\* C20 happens: the iterator has given three pairs and has passed a word
\* with the coefficient 0, and it is suspended after the third pair.
IterationOrderWitness ==
    /\ it.status = "answered"
    /\ Len(it.given) = 3
    /\ \E n \in 1..Len(IterWords) :
        n < it.pos /\ Coeff(S, IterWords[n]) = 0

\* C21.  Iteration is infinite and restartable: for a series that is not
\* trivially zero every next() on an iterator of the series is answered with
\* a pair in the end, and every iter(S) gives a new iterator that starts
\* from the first word of the word domain.
IterationInfinite ==
    /\ (it.status = "pending" /\ ~is_trivial_zero(S))
            ~> (it.status \in {"answered", "beyond"})
    /\ [][op'.name = "__iter__" => (it'.id # it.id /\ it'.pos = 1)]_vars

\* While the loop of _minimized_left_ runs and after it, the accepted words
\* are at most dimension() many.
AcceptedWithinDimension ==
    (op.name = "_minimized_left_" /\ gen.status # "none") =>
        Len(elements) <= dimension(S)

\* When the loop has ended, every accepted word has given one candidate for
\* each letter, and there was no other candidate.
CandidatesCounted ==
    (op.name = "_minimized_left_" /\ gen.status = "done") =>
        Len(yielded) = Len(Alphabet) * Len(elements)

\* While the loop runs, at most (number of letters) * dimension() candidates
\* were examined.
CandidatesWithinDimension ==
    (op.name = "_minimized_left_" /\ gen.status = "running") =>
        Len(yielded) <= Len(Alphabet) * dimension(S)

\* C22.  Minimization terminates: the candidate loop of _minimized_left_
\* ends, since every turn of it examines one more candidate or leaves the
\* loop and the candidates are at most (number of letters) * dimension();
\* the accepted word list P (with the empty word) has at most dimension()
\* words, and exactly (number of letters) * |P| candidates are examined.
MinimizationTerminates ==
    /\ []AcceptedWithinDimension
    /\ []CandidatesCounted
    /\ []CandidatesWithinDimension
    /\ [][(op.name = "_minimized_left_" /\ gen.status = "running") =>
            \/ gen'.status = "done" /\ yielded' = yielded
            \/ gen'.status = "running" /\ Len(yielded') = Len(yielded) + 1]_vars

\* C22 happens: the loop of a series of dimension 3 ended with three
\* accepted words after six candidates.
MinimizationTerminatesWitness ==
    /\ op.name = "_minimized_left_"
    /\ gen.status = "done"
    /\ dimension(S) = 3
    /\ Len(elements) = 3
    /\ Len(yielded) = 6

\* The row left * mu(w) of the series S
RowOf(w) == coefficient_of_word(S, w, TRUE, FALSE)

\* v is a linear combination of the rows
InSpan(rows, v) ==
    \E x \in [1..Len(rows) -> Coefficients] : VecMat(x, rows) = v

\* C27.  The 'no solution' outcome of the solve never leaves
\* _minimized_left_: no error leaves the method; in the loop a candidate
\* whose row is no combination of the rows of Left is added to the set, by
\* an add whose check does not fail, and its row is appended to Left, and
\* every other candidate is passed over; and when the loop has ended the row
\* of every word of the boundary C is a combination of the rows of Left, so
\* that alpha(c) has a solution and the method returns a series.
NoSolutionNeverEscapes ==
    op.name = "_minimized_left_" =>
        /\ gen.status # "abandoned"
        /\ R # ValueError
        /\ lastAdd.called =>
            /\ lastAdd.check
            /\ ~lastAdd.raised
            /\ \E k \in 2..Len(elements) :
                /\ elements[k] = lastAdd.w
                /\ SubSeq(elements, 1, k - 1) = lastAdd.before
        /\ gen.status # "none" =>
            /\ Len(LeftRows) = Len(elements)
            /\ \A k \in 1..Len(elements) : LeftRows[k] = RowOf(elements[k])
            /\ \A k \in 2..Len(elements) :
                /\ ~InSpan(SubSeq(LeftRows, 1, k - 1), LeftRows[k])
                /\ \E j \in 1..Len(yielded) : yielded[j] = elements[k]
            /\ \A j \in 1..Len(yielded) :
                \/ \E k \in 2..Len(elements) : elements[k] = yielded[j]
                \/ InSpan(LeftRows, RowOf(yielded[j]))
        /\ gen.status = "done" =>
            /\ \A k \in 1..Len(elements), a \in Letters :
                InSpan(LeftRows, RowOf(Append(elements[k], a)))
            /\ R # None => dimension(R) = Len(elements)

\* C27 happens: _minimized_left_ returned a series of dimension 2 for a
\* series of dimension 3; a candidate was added and the boundary has words.
NoSolutionNeverEscapesWitness ==
    /\ op.name = "_minimized_left_"
    /\ gen.status = "done"
    /\ R # None
    /\ lastAdd.called
    /\ dimension(S) = 3
    /\ Len(elements) = 2
    /\ Len(prefix_set(elements)) >= 2

\* C28.  Shape of the left-minimized representation: when the row of the
\* empty word is not zero, _minimized_left_ returns a series of dimension
\* |P| for the accepted words P; P[0] is the empty word and the rows
\* left * mu(p) of the words of P are linearly independent; left is
\* (1, 0, ..., 0), right has S[p] at the place of p, and the row of p in the
\* matrix of the letter a is the unit vector of q when p.a = q is in P and
\* in every case holds the coordinates of the row of p.a in the rows of P.
LeftMinimizedShape ==
    (op.name = "_minimized_left_" /\ gen.status = "done" /\ R # None) =>
        LET P == elements
            Rows == [k \in 1..Len(P) |-> RowOf(P[k])]
        IN /\ ~Raised(R)
           /\ ~IsZeroVector(RowOf(<<>>))
           /\ P[1] = <<>>
           /\ \A x \in [1..Len(P) -> Coefficients] :
                (\A j \in 1..Len(S.left) : VecMat(x, Rows)[j] = 0)
                    => \A k \in 1..Len(P) : x[k] = 0
           /\ dimension(R) = Len(P)
           /\ Len(R.mu) = Len(Alphabet)
           /\ Len(R.left) = Len(P)
           /\ \A k \in 1..Len(P) : R.left[k] = IF k = 1 THEN 1 ELSE 0
           /\ Len(R.right) = Len(P)
           /\ \A k \in 1..Len(P) : R.right[k] = Coeff(S, P[k])
           /\ \A ia \in 1..Len(Alphabet), ip \in 1..Len(P) :
                LET c == P[ip] \o <<Alphabet[ia]>>
                    row == R.mu[ia][ip]
                IN /\ Len(R.mu[ia]) = Len(P)
                   /\ Len(row) = Len(P)
                   /\ \A iq \in 1..Len(P) :
                        P[iq] = c =>
                            \A k \in 1..Len(P) :
                                row[k] = IF k = iq THEN 1 ELSE 0
                   /\ VecMat(row, Rows) = RowOf(c)

\* C28 happens: a series of dimension 3 was left-minimized to dimension 2,
\* with a word p.a in P and a word p.a of the boundary whose row has two
\* nonzero coordinates.
LeftMinimizedShapeWitness ==
    /\ op.name = "_minimized_left_"
    /\ gen.status = "done"
    /\ R # None
    /\ ~Raised(R)
    /\ dimension(S) = 3
    /\ Len(elements) = 2
    /\ \E ia \in 1..Len(Alphabet) :
        /\ ~InList(Append(elements[2], Alphabet[ia]), elements)
        /\ R.mu[ia][2][1] # 0
        /\ R.mu[ia][2][2] # 0

\* No word sits at two places of the list.
NoDuplicates(l) ==
    \A j \in 1..Len(l), k \in 1..Len(l) : l[j] = l[k] => j = k

\* C29.  Rejected candidates are the boundary: when the caller adds a word
\* only at the moment populate_interactive yields it, no word is yielded
\* twice, elements holds no word twice, and once the generator has ended the
\* candidates that were yielded and not added, in the order of their yield,
\* are the list prefix_set() returns.
RejectedAreBoundary ==
    /\ NoDuplicates(yielded)
    /\ NoDuplicates(elements)
    /\ \A k \in 2..Len(elements) : InList(elements[k], yielded)
    /\ gen.status = "done" =>
        SelectSeq(yielded, LAMBDA c : \A k \in 1..Len(elements) : elements[k] # c)
            = prefix_set(elements)

\* C29 happens: the generator ended after the caller added three of the
\* eight candidates, among them a word of length 3.
RejectedAreBoundaryWitness ==
    /\ gen.status = "done"
    /\ Len(elements) = 4
    /\ Len(yielded) = 8
    /\ Len(prefix_set(elements)) = 5
    /\ \E k \in 1..Len(elements) : Len(elements[k]) = 3

\* C30.  minimized() is a normal form: for two series S1 and S2 of the space
\* with S1[w] = S2[w] at every word w, whatever their dimensions and bases,
\* S1.minimized() and S2.minimized() have the same mu matrices and the same
\* left and right vectors.
MinimizedIsNormalForm ==
    (/\ op.name = "minimized_pair"
     /\ \A w \in WordsUpTo(dimension(S) + dimension(T) - 1) :
            Coeff(S, w) = Coeff(T, w)) =>
        /\ ~Raised(R[1])
        /\ ~Raised(R[2])
        /\ R[1].mu = R[2].mu
        /\ R[1].left = R[2].left
        /\ R[1].right = R[2].right
        /\ dimension(R[1]) = dimension(R[2])


\* The word domain and the category a call asked for
DomainOf(call) ==
    IF call.alphabet # NoArg THEN call.alphabet.letters
    ELSE call.indices.letters

CategoryOf(call) ==
    IF call.category = NoArg THEN Modules(call.coefficients)
    ELSE call.category

Succeeded(call) == call.outcome.raised = ""

\* C23: two constructions with the same coefficients, the same word domain
\* (given as the positional alphabet, as alphabet= or as indices=) and the
\* same category return the identical space; constructions that differ in
\* one of them return different spaces; the space returned has the
\* coefficients, the words and the category asked for, and no two spaces
\* have the same key (coefficients, indices, category).
UniqueSpace ==
    /\ \A i \in 1..Len(calls), j \in 1..Len(calls) :
          (Succeeded(calls[i]) /\ Succeeded(calls[j])) =>
              ((calls[i].outcome.space = calls[j].outcome.space)
                 <=> (/\ calls[i].coefficients = calls[j].coefficients
                      /\ DomainOf(calls[i]) = DomainOf(calls[j])
                      /\ CategoryOf(calls[i]) = CategoryOf(calls[j])))
    /\ \A i \in 1..Len(calls) :
          Succeeded(calls[i]) =>
              /\ calls[i].outcome.space \in 1..Len(spaces)
              /\ spaces[calls[i].outcome.space] =
                     [coefficients |-> calls[i].coefficients,
                      indices |-> [kind |-> "words",
                                   letters |-> DomainOf(calls[i]),
                                   finite |-> TRUE],
                      category |-> CategoryOf(calls[i])]
    /\ \A k \in 1..Len(spaces), l \in 1..Len(spaces) :
          spaces[k] = spaces[l] => k = l

\* The space is constructed with the alphabet as a positional argument and
\* then with indices=, and the two calls return the one space there is.
UniqueSpaceWitness ==
    /\ Len(calls) = 2
    /\ calls[1].how = "positional" /\ calls[1].alphabet = AlphabetArg
    /\ calls[2].indices = Words(AlphabetArg)
    /\ Succeeded(calls[1]) /\ Succeeded(calls[2])
    /\ calls[1].outcome.space = calls[2].outcome.space
    /\ Len(spaces) = 1

\* The arguments no space is made of
NeitherOrBoth(call) == (call.alphabet = NoArg) = (call.indices = NoArg)

InfiniteDomain(call) ==
    /\ ~NeitherOrBoth(call)
    /\ \/ call.alphabet = InfiniteAlphabet
       \/ call.indices = Words(InfiniteAlphabet)

BadCoefficients(call) == call.coefficients \in {NoArg, NotASemiring}

\* C24: a construction fails exactly when neither or both of alphabet and
\* indices are given, the coefficients are missing or no semiring, or the
\* alphabet is not finite; it fails with NotImplementedError for the
\* alphabet that is not finite and with ValueError otherwise, and a
\* construction that fails makes no space.
ConstructionValidated ==
    \A i \in 1..Len(calls) :
        LET call == calls[i]
        IN /\ ~Succeeded(call) <=>
                 (NeitherOrBoth(call) \/ InfiniteDomain(call)
                    \/ BadCoefficients(call))
           /\ NeitherOrBoth(call) => call.outcome.raised = "ValueError"
           /\ InfiniteDomain(call) =>
                 call.outcome.raised = "NotImplementedError"
           /\ (BadCoefficients(call) /\ ~NeitherOrBoth(call)
                 /\ ~InfiniteDomain(call)) =>
                 call.outcome.raised = "ValueError"
           /\ ~Succeeded(call) =>
                 (call.after = call.before /\ call.outcome.space = 0)

\* After a space was made, a construction over an alphabet that is not
\* finite fails, and the one space is all there is.
ConstructionValidatedWitness ==
    /\ Len(calls) = 2
    /\ Succeeded(calls[1])
    /\ calls[2].alphabet = InfiniteAlphabet
    /\ calls[2].outcome.raised = "NotImplementedError"
    /\ calls[2].before = 1
    /\ Len(spaces) = 1


IsElementCall == op.name = "_element_constructor_"

\* C25: a space called on an instance that belongs to it, without
\* transpose, returns that very instance: no instance is made and the
\* instances are as they were, whatever left and right are.
IdentityPassthrough ==
    (/\ IsElementCall
     /\ op.data.kind = "element"
     /\ ~op.transpose
     /\ op.before[op.data.ref].parent = op.space)
        => (/\ R = ReturnElement(op.data.ref)
            /\ instances = op.before)

\* The space was called on the second of two instances, which belongs to
\* it, and returned it.
IdentityPassthroughWitness ==
    /\ IsElementCall
    /\ op.data = ElementData(2)
    /\ ~op.transpose
    /\ op.before[2].parent = op.space
    /\ R = ReturnElement(2)
    /\ Len(instances) = 2

\* The vectors that are None in the call, and the vectors an error message
\* speaks of
MissingVectors ==
    {v \in {"left", "right"} :
        \/ v = "left" /\ op.left = NoArg
        \/ v = "right" /\ op.right = NoArg}

VectorsNamed(message) ==
    IF message = "Left or right vector is None." THEN {"left", "right"}
    ELSE {}

FromMatricesWithoutVector ==
    /\ IsElementCall
    /\ op.data.kind = "matrices"
    /\ MissingVectors # {}

\* C26 as amended: element construction from matrices with left or right
\* None raises ValueError with the message 'Left or right vector is None.',
\* the same whichever vector is missing, and no instance is made.
MissingVectorRaises ==
    FromMatricesWithoutVector
        => (/\ R = RaiseInElement("ValueError",
                                  "Left or right vector is None.")
            /\ instances = op.before)

\* The space was called with matrices and left, but without right, when an
\* instance existed already.
MissingVectorRaisesWitness ==
    /\ FromMatricesWithoutVector
    /\ MissingVectors = {"right"}
    /\ R.raised = "ValueError"
    /\ Len(instances) = 1

\* C26 as stated: the error names which of the two vectors is missing.
MissingVectorNamed ==
    FromMatricesWithoutVector
        => (/\ R.raised = "ValueError"
            /\ VectorsNamed(R.message) = MissingVectors
            /\ instances = op.before)

=============================================================================
